---- MODULE Spec2Model ----
(***************************************************************************)
(* Batched ledger-operation orchestrator of the Solana toolkit:            *)
(*   TokenAccountManager.closeAccount / batchCloseAccounts                 *)
(*   TransferManager.transfer / batchTransfer                              *)
(* src/toolkits/solana/src/index.ts holds two versions of                  *)
(* TokenAccountManager: the stand-alone script (lines 49-189, "script")    *)
(* and the toolkit service (lines 318-426, "toolkit").  Both are modelled; *)
(* the variable `variant` says which one a run executes.  The file's       *)
(* getClosableTokenAccounts (lines 191-265 and 625-699, the same code) is  *)
(* the scan that produces the list batchCloseAccounts is given.            *)
(*                                                                         *)
(* Every action is one synchronous segment of the JavaScript code: it      *)
(* starts where an awaited promise settles (or where the function is       *)
(* called) and runs to the next await.                                     *)
(***************************************************************************)
EXTENDS Integers, Sequences, FiniteSets, TLC

----------------------------------------------------------------------------
(* Bounds of the model *)

\* longest account list handed to batchCloseAccounts
MaxTargets == 5
\* largest batchSize argument
MaxBatch == 2
\* largest count handed to batchTransfer
MaxCount == 2
\* most token accounts a scanned wallet owns
MaxHoldings == 3

----------------------------------------------------------------------------
(* Values *)

Variants == {"script", "toolkit"}

\* An address string that new PublicKey() rejects.
BadAddress == 0
\* The well-formed address string of the account at position p of a list.
AddressOf(p) == p

Max(a, b) == IF a >= b THEN a ELSE b
Min(a, b) == IF a <= b THEN a ELSE b

\* A number that is either a count of lamports (e = 0) or such a count
\* divided e times by LAMPORTS_PER_SOL.  JavaScript's doubles are modelled
\* exactly (no rounding); zero is the same number whatever it was divided by.
Num(n, e) == IF n = 0 THEN [n |-> 0, e |-> 0] ELSE [n |-> n, e |-> e]
Zero == Num(0, 0)
\* x / LAMPORTS_PER_SOL
DivLamportsPerSol(x) == Num(x.n, x.e + 1)
\* x + y for two numbers of the same scale (or a zero)
NumAdd(x, y) ==
    IF x.n = 0 THEN y
    ELSE IF y.n = 0 THEN x
    ELSE Num(x.n + y.n, Max(x.e, y.e))

\* x - y for two numbers of the same scale (or a zero)
NumSub(x, y) == NumAdd(x, Num(0 - y.n, y.e))

\* undefined
NoValue == "none"

\* an optional field or option that is not supplied
Absent == -1

\* the maxRetries option handed to sendAndConfirmTransaction and to
\* sendTransaction
MaxRetries == 3

VARIABLES
    wallet,             \* the manager's signing Keypair
    connection,         \* the manager's Connection
    variant,            \* which TokenAccountManager runs
    accounts,           \* batchCloseAccounts' argument: the TokenAccount list
    batchSize,          \* batchCloseAccounts' argument
    pc,                 \* where batchCloseAccounts is suspended
    i,                  \* script: the loop index
    successCount,       \* script
    failCount,          \* script
    totalRentRecovered, \* script
    balanceBeforeSOL,   \* script
    processed,          \* toolkit
    succeeded,          \* toolkit
    batch,              \* the current chunk, as positions of `accounts`
    raisedBy,           \* the error batchCloseAccounts rejected with
    report,             \* the closing statistics batchCloseAccounts logged
    op,                 \* per position: the closeAccount call made for it
    tokenAmount,        \* ledger: token balance of the account at a position
    closed,             \* ledger: the close transaction of a position landed
    chunks,             \* history: the chunks formed so far
    attempts,           \* history: closeAccount calls per position
    joined,             \* history: chunks whose Promise.all was fulfilled
    delays,             \* history: inter-batch delays that have elapsed
    toAddress,          \* batchTransfer's argument
    config,             \* batchTransfer's argument: the TransferConfig
    count,              \* batchTransfer's argument
    tpc,                \* where batchTransfer is suspended
    ti,                 \* batchTransfer's loop index
    results,            \* batchTransfer's result list
    xfer,               \* the transfer call in progress
    calls,              \* history: the steps the transfer call in progress took
    submitted,          \* history: transactions handed to sendTransaction
    pauses,             \* history: pacing delays that have elapsed
    landed,             \* ledger: transfer transactions that landed
    walletAddress,      \* getClosableTokenAccounts' argument
    holdings,           \* ledger: the token accounts the wallet owns
    spc,                \* where getClosableTokenAccounts is suspended
    tokenAccounts,      \* the answer of getParsedTokenAccountsByOwner
    lookup,             \* per candidate: its getAccountInfo lookup
    scanResult,         \* the TokenAccountsResult returned
    scanRaised,         \* the error getClosableTokenAccounts rejected with
    facadeCalls,        \* history: requests made through the Connection
    cancelledAt         \* the chunks launched when a caller asked to stop

\* the manager's fields
managerVars == <<wallet, connection>>
\* the arguments of batchCloseAccounts
closeArgs == <<variant, accounts, batchSize>>
\* the script's locals
scriptVars == <<i, successCount, failCount, totalRentRecovered,
                balanceBeforeSOL>>
\* the toolkit's locals
toolkitVars == <<processed, succeeded>>
\* what forming and mapping a chunk writes
launchVars == <<batch, chunks, op, attempts>>
ledgerVars == <<tokenAmount, closed>>
\* what batchCloseAccounts itself keeps
batchVars == <<pc, scriptVars, toolkitVars, batch, raisedBy, report, chunks,
               attempts, joined, delays>>

closeVars == <<closeArgs, batchVars, op, ledgerVars>>

transferVars == <<toAddress, config, count, tpc, ti, results, xfer, calls,
                  submitted, pauses, landed>>

scanVars == <<walletAddress, holdings, spc, tokenAccounts, lookup, scanResult,
              scanRaised, facadeCalls>>

\* what the caller of a running batch does
cancelVars == <<cancelledAt>>

vars == <<closeVars, transferVars, scanVars, managerVars, cancelVars>>

----------------------------------------------------------------------------
(* The constructors *)

\* Keypair.fromSecretKey(secretKey)
Keypair == [publicKey |-> "wallet", secretKey |-> "secret key"]

\* new Connection(endpoint, COMMITMENT)
Connection == [endpoint |-> "endpoint", commitment |-> "confirmed"]

\* the manager as its constructor leaves it; nobody has asked it to stop
Constructed ==
    /\ wallet = Keypair
    /\ connection = Connection
    /\ cancelledAt = Absent

----------------------------------------------------------------------------
(* The ledger, as the Connection facade shows it *)

\* lamport deposit of the token account at position p
AccountLamports(p) == p

\* The token program closes an account only when its token balance is zero.
LedgerAcceptsClose(p) == tokenAmount[p] = 0 /\ ~closed[p]

----------------------------------------------------------------------------
(* new PublicKey(address) *)

\* TRUE when the constructor throws
PublicKeyThrows(address) == address = BadAddress

\* the message of the error it throws
InvalidPublicKey == "Invalid public key input"

----------------------------------------------------------------------------
(* TokenAccountManager.closeAccount *)

Positions == 1..Len(accounts)

\* the result slot of a call that has not returned
NoResult ==
    [success |-> FALSE, signature |-> NoValue, error |-> NoValue,
     accountAddress |-> BadAddress, rentRecovered |-> Zero]

\* accountInfo.amount before getAccount has answered
NoAmount == -1

\* pc: where the call is suspended ("raised": its promise is rejected);
\* amount: accountInfo.amount; thrown: the error thrown inside try;
\* getAccountCalls and sendCalls: history, the calls of getAccount and of
\* sendAndConfirmTransaction it made; maxRetries: the option of the latter
IdleOp ==
    [pc |-> "idle", amount |-> NoAmount, rentBefore |-> 0, thrown |-> NoValue,
     getAccountCalls |-> 0, sendCalls |-> 0, maxRetries |-> Absent,
     result |-> NoResult]

\* the guard, had it been left out
BalanceCheckSkipped(amount) == FALSE

\* the guard, had it compared with 1
BalanceNotZeroOffByOne(amount) == amount > 1

\* the `if (accountInfo.amount > BigInt(0))` guard
BalanceNotZero(amount) == amount > 0

BalanceNotZeroError == "balance not zero"

\* the early return of the guard
PreconditionFailure(p) ==
    [success |-> FALSE, signature |-> NoValue, error |-> BalanceNotZeroError,
     accountAddress |-> accounts[p].address, rentRecovered |-> Zero]

\* closeAccount without its catch block: the error rejects the promise
CloseAccountNoCatch(p, message) ==
    [op[p] EXCEPT !.pc = "raised", !.thrown = message]

\* the catch block, had it reported the deposit read before the throw
CloseAccountCatchReportsRent(p, message) ==
    [op[p] EXCEPT
        !.pc = "done",
        !.thrown = message,
        !.result = [success |-> FALSE, signature |-> NoValue,
                    error |-> message,
                    accountAddress |-> accounts[p].address,
                    rentRecovered |->
                        DivLamportsPerSol(Num(op[p].rentBefore, 0))]]

\* the catch block: the error thrown inside try becomes an outcome
CloseAccountCatch(p, message) ==
    [op[p] EXCEPT
        !.pc = "done",
        !.thrown = message,
        !.result = [success |-> FALSE, signature |-> NoValue,
                    error |-> message,
                    accountAddress |-> accounts[p].address,
                    rentRecovered |-> Zero]]

\* rentRecovered of the success return
RentRecovered(rentBefore) ==
    IF variant = "script" THEN DivLamportsPerSol(Num(rentBefore, 0)) ELSE Zero

\* the success return, had it handed out the signer in the place of the
\* signature
CloseSuccessReturnsSigner(p) ==
    [success |-> TRUE, signature |-> wallet.secretKey, error |-> NoValue,
     accountAddress |-> accounts[p].address,
     rentRecovered |-> RentRecovered(op[p].rentBefore)]

\* the success return
CloseSuccess(p) ==
    [success |-> TRUE, signature |-> "signature", error |-> NoValue,
     accountAddress |-> accounts[p].address,
     rentRecovered |-> RentRecovered(op[p].rentBefore)]

\* await getAccount(...) resolves or rejects; then the guard, the close
\* instruction and the getBalance request.
GetAccountReturns(p) ==
    /\ p \in Positions
    /\ op[p].pc = "getAccount"
    /\ \E failed \in BOOLEAN :
          op' = [op EXCEPT ![p] =
                    IF failed \/ closed[p]
                    THEN CloseAccountCatch(p, "getAccount failed")
                    ELSE IF BalanceNotZero(tokenAmount[p])
                    THEN [@ EXCEPT !.pc = "done",
                                   !.amount = tokenAmount[p],
                                   !.result = PreconditionFailure(p)]
                    ELSE [@ EXCEPT !.pc = "getBalance",
                                   !.amount = tokenAmount[p]]]
    /\ UNCHANGED <<closeArgs, batchVars, ledgerVars, transferVars, scanVars,
                   managerVars, cancelVars>>

\* await connection.getBalance(accountPubkey) resolves or rejects; then the
\* transaction is built and handed to sendAndConfirmTransaction.
GetBalanceReturns(p) ==
    /\ p \in Positions
    /\ op[p].pc = "getBalance"
    /\ \E failed \in BOOLEAN :
          op' = [op EXCEPT ![p] =
                    IF failed
                    THEN CloseAccountCatch(p, "getBalance failed")
                    ELSE [@ EXCEPT !.pc = "send",
                                   !.rentBefore = AccountLamports(p),
                                   !.sendCalls = @ + 1,
                                   !.maxRetries = MaxRetries]]
    /\ UNCHANGED <<closeArgs, batchVars, ledgerVars, transferVars, scanVars,
                   managerVars, cancelVars>>

\* await sendAndConfirmTransaction(...) resolves with a signature or rejects
\* (not sent, rejected by the ledger, or not confirmed in time).
SendAndConfirmReturns(p) ==
    /\ p \in Positions
    /\ op[p].pc = "send"
    /\ \E answer \in {"confirmed", "send failed", "not confirmed"} :
          IF answer = "confirmed" /\ LedgerAcceptsClose(p)
          THEN /\ op' = [op EXCEPT ![p] = [@ EXCEPT !.pc = "done",
                                                    !.result = CloseSuccess(p)]]
               /\ closed' = [closed EXCEPT ![p] = TRUE]
          ELSE /\ op' = [op EXCEPT ![p] =
                            CloseAccountCatch(p, IF answer = "confirmed"
                                                 THEN "ledger rejected"
                                                 ELSE answer)]
               \* a transaction that was not seen confirmed may still land
               /\ \E lands \in BOOLEAN :
                     closed' = [closed EXCEPT ![p] =
                                   lands /\ answer = "not confirmed"
                                         /\ LedgerAcceptsClose(p)]
    /\ UNCHANGED <<closeArgs, batchVars, tokenAmount, transferVars, scanVars,
                   managerVars, cancelVars>>

\* Another party deposits tokens into the account at position p.  A deposit
\* made before the account's closeAccount call is read by that call's
\* getAccount exactly as one made while getAccount is awaited, so it is taken
\* then; deposits made after the call has returned are left out: nothing reads
\* the balance again.
Deposit(p) ==
    /\ p \in Positions
    /\ tokenAmount[p] = 0
    /\ ~closed[p]
    /\ op[p].pc \notin {"idle", "done"}
    /\ tokenAmount' = [tokenAmount EXCEPT ![p] = 1]
    /\ UNCHANGED <<closeArgs, batchVars, op, closed, transferVars, scanVars,
                   managerVars, cancelVars>>

----------------------------------------------------------------------------
(* Array.prototype.slice *)

\* slice, had it taken the element at `end` too
SliceEndInclusive(len, start, end) ==
    LET from == IF start < 0 THEN Max(len + start, 0) ELSE Min(start, len)
        to   == IF end + 1 < 0 THEN Max(len + end + 1, 0) ELSE Min(end + 1, len)
    IN  [k \in 1..Max(to - from, 0) |-> from + k]

\* accounts.slice(start, end), as the positions (index + 1) it selects
Slice(len, start, end) ==
    LET from == IF start < 0 THEN Max(len + start, 0) ELSE Min(start, len)
        to   == IF end < 0 THEN Max(len + end, 0) ELSE Min(end, len)
    IN  [k \in 1..Max(to - from, 0) |-> from + k]

----------------------------------------------------------------------------
(* batch.map((account) => this.closeAccount(new PublicKey(account.address))) *)

\* index in the chunk of the first account whose address new PublicKey()
\* rejects, 0 when there is none
FirstThrow(b) ==
    IF \E k \in 1..Len(b) : PublicKeyThrows(accounts[b[k]].address)
    THEN CHOOSE k \in 1..Len(b) :
            /\ PublicKeyThrows(accounts[b[k]].address)
            /\ \A j \in 1..(k - 1) : ~PublicKeyThrows(accounts[b[j]].address)
    ELSE 0

\* the positions for which map's callback reached closeAccount: all of the
\* chunk, or those before the throwing one
Mapped(b) ==
    {b[k] : k \in {j \in 1..Len(b) : FirstThrow(b) = 0 \/ j < FirstThrow(b)}}

\* closeAccount runs synchronously to its first await (getAccount)
StartClose(p) ==
    [IdleOp EXCEPT !.pc = "getAccount",
                   !.getAccountCalls = op[p].getAccountCalls + 1]

\* the iterations of the chunk loop a run is followed for: one more than a
\* loop that takes a target in every iteration can make
MaxChunks == MaxTargets + 1

\* The chunk b is formed and mapped; the function then awaits Promise.all,
\* or rejects with the constructor's error.  `ops` are the closeAccount
\* calls as the segment found them.
Launch(b, ops) ==
    /\ Len(chunks) < MaxChunks
    /\ batch' = b
    /\ chunks' = Append(chunks, b)
    /\ op' = [p \in DOMAIN op |->
                 IF p \in Mapped(b) THEN StartClose(p) ELSE ops[p]]
    /\ attempts' = [p \in DOMAIN attempts |->
                       IF p \in Mapped(b) THEN attempts[p] + 1 ELSE attempts[p]]
    /\ pc' = IF FirstThrow(b) = 0 THEN "join" ELSE "raised"
    /\ raisedBy' = IF FirstThrow(b) = 0 THEN raisedBy ELSE InvalidPublicKey

\* Promise.any in the place of Promise.all
AnyReturned(b) == \E k \in 1..Len(b) : op[b[k]].pc = "done"

\* Promise.all, had the last promise of the chunk been left out of it
AllButLastReturned(b) == \A k \in 1..(Len(b) - 1) : op[b[k]].pc = "done"

\* Promise.all(promises): fulfilled when every promise is, rejected as soon
\* as one is
AllReturned(b) == \A k \in 1..Len(b) : op[b[k]].pc = "done"

AnyRaised(b) == \E k \in 1..Len(b) : op[b[k]].pc = "raised"

\* the error Promise.all rejects with
RaisedError(b) ==
    op[b[CHOOSE k \in 1..Len(b) : op[b[k]].pc = "raised"]].thrown

\* results of the chunk, in the chunk's order
Results(b) == [k \in 1..Len(b) |-> op[b[k]].result]

\* `results` goes out of scope at the end of the iteration: the calls of the
\* chunk that have returned are over and their outcomes are held by nothing
Released(b) ==
    [p \in DOMAIN op |->
        IF op[p].pc = "done" /\ \E k \in 1..Len(b) : b[k] = p
        THEN [IdleOp EXCEPT !.pc = "done"] ELSE op[p]]

\* the count, had every call of the chunk added its own success to the same
\* reading of the counter: all updates but one are lost
CountSuccessFromOneReading(rs) ==
    IF \E k \in 1..Len(rs) : rs[k].success THEN 1 ELSE 0

\* results.filter((r) => r.success).length
CountSuccess(rs) == Cardinality({k \in 1..Len(rs) : rs[k].success})

\* what the tally loop adds to totalRentRecovered
RECURSIVE SumRecovered(_)
SumRecovered(rs) ==
    IF Len(rs) = 0 THEN Zero
    ELSE NumAdd(SumRecovered(SubSeq(rs, 1, Len(rs) - 1)),
                IF rs[Len(rs)].success
                THEN rs[Len(rs)].rentRecovered ELSE Zero)

----------------------------------------------------------------------------
(* TokenAccountManager.batchCloseAccounts, the script *)

\* the test of the for loop with index j, and the body up to Promise.all
ScriptLoop(j, ops) ==
    /\ i' = j
    /\ IF j < Len(accounts)
       THEN Launch(Slice(Len(accounts), j, j + batchSize), ops)
       ELSE /\ pc' = "balanceAfter"
            /\ op' = ops
            /\ UNCHANGED <<batch, chunks, attempts, raisedBy>>

\* nothing has been logged as closing statistics
NoReport == [kind |-> "none"]

\* what this.connection.getBalance(this.wallet.publicKey) may answer, in
\* lamports
WalletBalances == {1000, 1008}

\* the call: the empty list returns at once, else the wallet balance is asked
ScriptStart ==
    /\ variant = "script"
    /\ pc = "start"
    /\ pc' = IF Len(accounts) = 0 THEN "done" ELSE "balanceBefore"
    /\ UNCHANGED <<closeArgs, scriptVars, toolkitVars, launchVars, raisedBy,
                   report, joined, delays, ledgerVars, transferVars, scanVars,
                   managerVars, cancelVars>>

\* await getBalance(wallet) before the loop resolves or rejects
BalanceBeforeReturns ==
    /\ pc = "balanceBefore"
    /\ \E failed \in BOOLEAN :
          IF failed
          THEN /\ pc' = "raised"
               /\ raisedBy' = "getBalance failed"
               /\ UNCHANGED <<i, balanceBeforeSOL, launchVars>>
          ELSE /\ \E balanceBefore \in WalletBalances :
                     balanceBeforeSOL' =
                        DivLamportsPerSol(Num(balanceBefore, 0))
               /\ ScriptLoop(0, op)
    /\ UNCHANGED <<closeArgs, successCount, failCount, totalRentRecovered,
                   report, toolkitVars, joined, delays, ledgerVars,
                   transferVars, scanVars, managerVars, cancelVars>>

\* the script's `if (i + batchSize < accounts.length)` before the delay
ScriptMore == i + batchSize < Len(accounts)

\* await Promise.all settles: the tally loop, then the delay or the next
\* test of the for loop
ScriptJoin ==
    /\ variant = "script"
    /\ pc = "join"
    /\ AllReturned(batch) \/ AnyRaised(batch)
    /\ IF AnyRaised(batch)
       THEN /\ pc' = "raised"
            /\ raisedBy' = RaisedError(batch)
            /\ UNCHANGED <<i, successCount, failCount, totalRentRecovered,
                           launchVars, joined>>
       ELSE /\ successCount' = successCount + CountSuccess(Results(batch))
            /\ failCount' =
                  failCount + (Len(batch) - CountSuccess(Results(batch)))
            /\ totalRentRecovered' =
                  NumAdd(totalRentRecovered, SumRecovered(Results(batch)))
            /\ joined' = joined + 1
            /\ IF ScriptMore
               THEN /\ pc' = "delay"
                    /\ op' = Released(batch)
                    /\ UNCHANGED <<i, batch, chunks, attempts, raisedBy>>
               ELSE ScriptLoop(i + batchSize, Released(batch))
    /\ UNCHANGED <<closeArgs, balanceBeforeSOL, report, toolkitVars, delays,
                   ledgerVars, transferVars, scanVars, managerVars,
                   cancelVars>>

\* the 2000 ms timer fires: i += batchSize and the next iteration
ScriptDelayElapses ==
    /\ variant = "script"
    /\ pc = "delay"
    /\ delays' = delays + 1
    /\ ScriptLoop(i + batchSize, op)
    /\ UNCHANGED <<closeArgs, successCount, failCount, totalRentRecovered,
                   balanceBeforeSOL, report, toolkitVars, joined, ledgerVars,
                   transferVars, scanVars, managerVars, cancelVars>>

\* balanceAfterSOL - balanceBeforeSOL, had the operands been swapped
ActualRecoveredSwapped(balanceAfterSOL) ==
    NumSub(balanceBeforeSOL, balanceAfterSOL)

\* const actualRecovered = balanceAfterSOL - balanceBeforeSOL
ActualRecovered(balanceAfterSOL) == NumSub(balanceAfterSOL, balanceBeforeSOL)

\* const gasConsumed = actualRecovered - totalRentRecovered
GasConsumed(actualRecovered) == NumSub(actualRecovered, totalRentRecovered)

\* the closing statistics the script logs; gasConsumed is logged twice,
\* once labelled lamports and once, divided by LAMPORTS_PER_SOL, labelled SOL
ScriptReport(balanceAfter) ==
    LET balanceAfterSOL == DivLamportsPerSol(Num(balanceAfter, 0))
        actualRecovered == ActualRecovered(balanceAfterSOL)
        gasConsumed == GasConsumed(actualRecovered)
    IN  [kind |-> "script",
         balanceBeforeSOL |-> balanceBeforeSOL,
         balanceAfterSOL |-> balanceAfterSOL,
         actualRecovered |-> actualRecovered,
         successCount |-> successCount,
         failCount |-> failCount,
         totalRentRecovered |-> totalRentRecovered,
         gasLamports |-> gasConsumed,
         gasSol |-> DivLamportsPerSol(gasConsumed)]

\* await getBalance(wallet) after the loop resolves or rejects; then the
\* reconciliation and the closing statistics
BalanceAfterReturns ==
    /\ pc = "balanceAfter"
    /\ \E failed \in BOOLEAN :
          IF failed
          THEN /\ pc' = "raised"
               /\ raisedBy' = "getBalance failed"
               /\ UNCHANGED report
          ELSE /\ pc' = "done"
               /\ \E balanceAfter \in WalletBalances :
                     report' = ScriptReport(balanceAfter)
               /\ UNCHANGED raisedBy
    /\ UNCHANGED <<closeArgs, scriptVars, toolkitVars, launchVars, joined,
                   delays, ledgerVars, transferVars, scanVars, managerVars,
                   cancelVars>>

----------------------------------------------------------------------------
(* TokenAccountManager.batchCloseAccounts, the toolkit *)

\* the closing line the toolkit logs: total, succeeded, total - succeeded
ToolkitReport(ok) ==
    [kind |-> "toolkit", total |-> Len(accounts), succeeded |-> ok,
     failed |-> Len(accounts) - ok]

\* the test of the while loop with `done` accounts processed, and the body
\* up to Promise.all
ToolkitLoop(done, ops) ==
    /\ processed' = done
    /\ IF done < Len(accounts)
       THEN /\ Launch(Slice(Len(accounts), done, done + batchSize), ops)
            /\ UNCHANGED report
       ELSE /\ pc' = "done"
            /\ op' = ops
            /\ report' = ToolkitReport(succeeded')
            /\ UNCHANGED <<batch, chunks, attempts, raisedBy>>

ToolkitStart ==
    /\ variant = "toolkit"
    /\ pc = "start"
    /\ succeeded' = 0
    /\ ToolkitLoop(0, op)
    /\ UNCHANGED <<closeArgs, scriptVars, joined, delays, ledgerVars,
                   transferVars, scanVars, managerVars, cancelVars>>

\* `processed += batchSize` in the place of `processed += batch.length`
AdvanceByBatchSize(b) == batchSize

\* what `processed += batch.length` adds
Advance(b) == Len(b)

\* await Promise.all settles: the counters, then the delay or the end
ToolkitJoin ==
    /\ variant = "toolkit"
    /\ pc = "join"
    /\ AllReturned(batch) \/ AnyRaised(batch)
    /\ IF AnyRaised(batch)
       THEN /\ pc' = "raised"
            /\ raisedBy' = RaisedError(batch)
            /\ UNCHANGED <<toolkitVars, launchVars, report, joined>>
       ELSE /\ succeeded' = succeeded + CountSuccess(Results(batch))
            /\ joined' = joined + 1
            /\ IF processed + Advance(batch) < Len(accounts)
               THEN /\ processed' = processed + Advance(batch)
                    /\ pc' = "delay"
                    /\ op' = Released(batch)
                    /\ UNCHANGED <<batch, chunks, attempts, raisedBy, report>>
               ELSE ToolkitLoop(processed + Advance(batch), Released(batch))
    /\ UNCHANGED <<closeArgs, scriptVars, delays, ledgerVars, transferVars,
                   scanVars, managerVars, cancelVars>>

\* the 1000 ms timer fires: the next test of the while loop
ToolkitDelayElapses ==
    /\ variant = "toolkit"
    /\ pc = "delay"
    /\ delays' = delays + 1
    /\ UNCHANGED succeeded
    /\ ToolkitLoop(processed, op)
    /\ UNCHANGED <<closeArgs, scriptVars, joined, ledgerVars, transferVars,
                   scanVars, managerVars, cancelVars>>


----------------------------------------------------------------------------
(* The caller of a running batch *)

\* The caller of batchCloseAccounts asks, while a chunk is awaited or the
\* delay runs, that the batch stop.  batchCloseAccounts takes no signal and
\* reads no flag: nothing of the manager changes.
RequestCancel ==
    /\ pc \in {"join", "delay"}
    /\ cancelledAt = Absent
    /\ cancelledAt' = Len(chunks)
    /\ UNCHANGED <<closeVars, transferVars, scanVars, managerVars>>
----------------------------------------------------------------------------
(* TransferManager.transfer *)

\* DEFAULT_COMPUTE_UNIT_PRICE and DEFAULT_COMPUTE_UNIT_LIMIT
DefaultComputeUnitPrice == 5
DefaultComputeUnitLimit == 500000

\* `if (config?.computeUnitPrice)`: undefined and 0 are both falsy
Truthy(field) == field # Absent /\ field # 0

\* the instructions pushed before the transfer instruction
BudgetInstructions(cfg) ==
    (IF Truthy(cfg.computeUnitPrice)
     THEN <<[kind |-> "setComputeUnitPrice", value |-> cfg.computeUnitPrice]>>
     ELSE <<>>)
    \o (IF Truthy(cfg.computeUnitLimit)
        THEN <<[kind |-> "setComputeUnitLimit", value |-> cfg.computeUnitLimit]>>
        ELSE <<>>)

\* SystemProgram.transfer({fromPubkey, toPubkey, lamports})
TransferInstruction == [kind |-> "transfer", value |-> 0]

NoBlockhash == [blockhash |-> 0, lastValidBlockHeight |-> 0]

\* the result slot of a call that has not returned
NoTransferResult ==
    [success |-> FALSE, signature |-> NoValue, error |-> NoValue,
     simulateResult |-> NoValue, url |-> NoValue]

\* pc: where the call is suspended ("raised": its promise is rejected);
\* recentBlockhash: the blockhash of the message compiled; simulateErr: simulateResult.value.err; thrown: the error thrown inside
\* try; maxRetries: the option handed to sendTransaction; confirmWith: the
\* blockhash and height handed to confirmTransaction; confirmation: what
\* awaiting confirmTransaction gave
IdleTransfer ==
    [pc |-> "idle", instructions |-> <<>>, latestBlockhash |-> NoBlockhash,
     recentBlockhash |-> 0,
     simulateErr |-> NoValue, maxRetries |-> Absent, signature |-> NoValue,
     thrown |-> NoValue, confirmWith |-> NoBlockhash,
     confirmation |-> NoValue, result |-> NoTransferResult]

\* the catch block, had it reported the signature of the transaction sent
TransferCatchKeepsSignature(x, message) ==
    [x EXCEPT
        !.pc = "done",
        !.thrown = message,
        !.result = [success |-> FALSE, signature |-> x.signature,
                    error |-> message, simulateResult |-> NoValue,
                    url |-> NoValue]]

\* the catch block, had it gone back to the simulation with the error caught
TransferCatchRetries(x, message) ==
    [x EXCEPT !.pc = "simulate", !.thrown = message]

\* the catch block: the error thrown inside try becomes an outcome
TransferCatch(x, message) ==
    [x EXCEPT
        !.pc = "done",
        !.thrown = message,
        !.result = [success |-> FALSE, signature |-> NoValue,
                    error |-> message, simulateResult |-> NoValue,
                    url |-> NoValue]]

\* JSON.stringify of an error name
JsonStringify(err) == "\"" \o err \o "\""

\* the message of the Error thrown when simulateResult.value.err is set
SimulationErrorMessage(err) == "simulation failed: " \o JsonStringify(err)

\* the message of the Error thrown when confirmation.value.err is set
NotConfirmedMessage == "not confirmed"

\* the return of the try block
TransferSuccess(x) ==
    [x EXCEPT
        !.pc = "done",
        !.result = [success |-> TRUE, signature |-> x.signature,
                    error |-> NoValue, simulateResult |-> "simulation value",
                    url |-> "https://solscan.io/tx/" \o x.signature]]

\* transfer(), had it built the instruction list before entering try (as
\* batchCloseAccounts builds its PublicKey outside closeAccount's try)
CallTransferOutsideTry ==
    IF PublicKeyThrows(toAddress)
    THEN /\ xfer' = [IdleTransfer EXCEPT
                        !.pc = "raised",
                        !.thrown = InvalidPublicKey,
                        !.instructions = BudgetInstructions(config)]
         /\ calls' = <<"build">>
    ELSE /\ xfer' = [IdleTransfer EXCEPT
                        !.pc = "blockhash",
                        !.instructions = Append(BudgetInstructions(config),
                                                TransferInstruction)]
         /\ calls' = <<"build", "blockhash">>

\* transfer(), had it gone from the instruction list straight to
\* sendTransaction
CallTransferSkipsSimulation ==
    IF PublicKeyThrows(toAddress)
    THEN /\ xfer' = TransferCatch([IdleTransfer EXCEPT
                                      !.instructions = BudgetInstructions(config)],
                                  InvalidPublicKey)
         /\ calls' = <<"build">>
    ELSE /\ xfer' = [IdleTransfer EXCEPT
                        !.pc = "send",
                        !.instructions = Append(BudgetInstructions(config),
                                                TransferInstruction)]
         /\ calls' = <<"build", "send">>

\* the call of transfer(): the instruction list, then the blockhash request
CallTransfer ==
    IF PublicKeyThrows(toAddress)
    THEN /\ xfer' = TransferCatch([IdleTransfer EXCEPT
                                      !.instructions = BudgetInstructions(config)],
                                  InvalidPublicKey)
         /\ calls' = <<"build">>
    ELSE /\ xfer' = [IdleTransfer EXCEPT
                        !.pc = "blockhash",
                        !.instructions = Append(BudgetInstructions(config),
                                                TransferInstruction)]
         /\ calls' = <<"build", "blockhash">>

\* blockhashes the endpoint may answer with, each with its expiry height
Blockhashes ==
    {[blockhash |-> h, lastValidBlockHeight |-> 150 + h] : h \in 1..2}

\* await getLatestBlockhash resolves or rejects; then the v0 message, the
\* versioned transaction and the simulate request
BlockhashReturns ==
    /\ xfer.pc = "blockhash"
    /\ \/ /\ xfer' = TransferCatch(xfer, "getLatestBlockhash failed")
          /\ UNCHANGED calls
       \/ \E b \in Blockhashes :
             /\ xfer' = [xfer EXCEPT !.pc = "simulate", !.latestBlockhash = b,
                                     !.recentBlockhash = b.blockhash]
             /\ calls' = Append(calls, "simulate")
    /\ UNCHANGED <<closeVars, scanVars, managerVars, cancelVars, toAddress,
                   config, count, tpc, ti, results, submitted, pauses,
                   landed>>

\* what simulateResult.value.err may hold
SimulationErrors == {NoValue, "AccountNotFound", "InsufficientFundsForFee"}

\* the check, had it looked for one error only
SimulationRejectedKnownOnly(err) == err = "AccountNotFound"

\* `if (simulateResult.value.err)`
SimulationRejected(err) == err # NoValue

\* the check of the simulation, had it come after the transaction was sent
RejectSimulationAfterSend(err) ==
    /\ xfer' = TransferCatch([xfer EXCEPT !.simulateErr = err],
                             SimulationErrorMessage(err))
    /\ calls' = calls \o <<"sign", "send">>
    /\ submitted' = submitted + 1

\* the simulation reported err: the throw, ahead of sign and sendTransaction
RejectSimulation(err) ==
    /\ xfer' = TransferCatch([xfer EXCEPT !.simulateErr = err],
                             SimulationErrorMessage(err))
    /\ UNCHANGED <<calls, submitted>>

\* await simulateTransaction resolves or rejects; then the check of the
\* simulation, transaction.sign and the send request
SimulateReturns ==
    /\ xfer.pc = "simulate"
    /\ \/ /\ xfer' = TransferCatch(xfer, "simulateTransaction failed")
          /\ UNCHANGED <<calls, submitted>>
       \/ \E err \in SimulationErrors, signThrows \in BOOLEAN :
             IF SimulationRejected(err)
             THEN RejectSimulation(err)
             ELSE IF signThrows
             THEN /\ xfer' = TransferCatch([xfer EXCEPT !.simulateErr = err],
                                           "sign failed")
                  /\ calls' = Append(calls, "sign")
                  /\ UNCHANGED submitted
             ELSE /\ xfer' = [xfer EXCEPT !.pc = "send", !.simulateErr = err,
                                          !.maxRetries = MaxRetries]
                  /\ calls' = calls \o <<"sign", "send">>
                  /\ submitted' = submitted + 1
    /\ UNCHANGED <<closeVars, scanVars, managerVars, cancelVars, toAddress,
                   config, count, tpc, ti, results, pauses, landed>>

\* the strategy, had it been taken from a second lookup that answered with
\* a later blockhash
ConfirmStrategyOfSecondLookup(x) ==
    CHOOSE b \in Blockhashes : b.blockhash # x.latestBlockhash.blockhash

\* the strategy handed to confirmTransaction, next to the signature:
\* {blockhash: latestBlockhash.blockhash,
\*  lastValidBlockHeight: latestBlockhash.lastValidBlockHeight}
ConfirmStrategy(x) ==
    [blockhash |-> x.latestBlockhash.blockhash,
     lastValidBlockHeight |-> x.latestBlockhash.lastValidBlockHeight]

\* await sendTransaction resolves with the signature or rejects; then the
\* confirm request, with the blockhash of the lookup
SendReturns ==
    /\ xfer.pc = "send"
    /\ \/ /\ xfer' = TransferCatch(xfer, "sendTransaction failed")
          /\ UNCHANGED calls
       \/ /\ xfer' = [xfer EXCEPT !.pc = "confirm",
                                  !.signature = "signature",
                                  !.confirmWith = ConfirmStrategy(xfer)]
          /\ calls' = Append(calls, "confirm")
    /\ UNCHANGED <<closeVars, scanVars, managerVars, cancelVars, toAddress,
                   config, count, tpc, ti, results, submitted, pauses,
                   landed>>

\* what awaiting confirmTransaction may give: a rejection because the block
\* height passed lastValidBlockHeight, a value with err set, or a value
\* without
ConfirmAnswers == {"expired", "err", "ok"}

\* the message of TransactionExpiredBlockheightExceededError
ExpiredMessage == "Signature has expired: block height exceeded."

\* the check of the confirmation, had it been left out
ConfirmationErrIgnored(answer) == FALSE

\* `if (confirmation.value.err)`
ConfirmationErr(answer) == answer = "err"

\* await confirmTransaction resolves or rejects; then the check of the
\* confirmation and the return.  A transaction confirmed without error has
\* landed; one whose confirmation expired may have landed all the same.
ConfirmReturns ==
    /\ xfer.pc = "confirm"
    /\ \E answer \in ConfirmAnswers, lands \in BOOLEAN :
          /\ xfer' =
                LET x == [xfer EXCEPT !.confirmation = answer]
                IN  IF answer = "expired" THEN TransferCatch(x, ExpiredMessage)
                    ELSE IF ConfirmationErr(answer)
                    THEN TransferCatch(x, NotConfirmedMessage)
                    ELSE TransferSuccess(x)
          /\ landed' = IF answer = "ok" \/ (answer = "expired" /\ lands)
                       THEN landed + 1 ELSE landed
    /\ UNCHANGED <<closeVars, scanVars, managerVars, cancelVars, toAddress,
                   config, count, tpc, ti, results, calls, submitted, pauses>>

----------------------------------------------------------------------------
(* TransferManager.batchTransfer *)

\* the for loop, had its test been i <= count
TransferLoopInclusive(j) ==
    /\ ti' = j
    /\ IF j <= count
       THEN tpc' = "transfer" /\ CallTransfer
       ELSE tpc' = "done" /\ UNCHANGED <<xfer, calls>>

\* the test of the for loop with index j, and the body up to the await
TransferLoop(j) ==
    /\ ti' = j
    /\ IF j < count
       THEN tpc' = "transfer" /\ CallTransfer
       ELSE tpc' = "done" /\ UNCHANGED <<xfer, calls>>

BatchTransferStart ==
    /\ tpc = "start"
    /\ results' = <<>>
    /\ TransferLoop(0)
    /\ UNCHANGED <<closeVars, scanVars, managerVars, cancelVars, toAddress,
                   config, count, submitted, pauses, landed>>

\* the test before the delay, had it been i < count
MoreTransfersOrLast == ti < count

\* `if (i < count - 1)` before the delay
MoreTransfers == ti < count - 1

\* await this.transfer(...) settles: the push, then the delay or the end;
\* a rejection is not caught
TransferResolves ==
    /\ tpc = "transfer"
    /\ xfer.pc \in {"done", "raised"}
    /\ IF xfer.pc = "raised"
       THEN tpc' = "raised" /\ UNCHANGED <<results, ti, xfer, calls>>
       ELSE /\ results' = Append(results, xfer.result)
            /\ IF MoreTransfers
               THEN tpc' = "delay" /\ UNCHANGED <<ti, xfer, calls>>
               ELSE TransferLoop(ti + 1)
    /\ UNCHANGED <<closeVars, scanVars, managerVars, cancelVars, toAddress,
                   config, count, submitted, pauses, landed>>

\* the 1000 ms timer fires: i++ and the next iteration
TransferDelayElapses ==
    /\ tpc = "delay"
    /\ pauses' = pauses + 1
    /\ TransferLoop(ti + 1)
    /\ UNCHANGED <<closeVars, scanVars, managerVars, cancelVars, toAddress,
                   config, count, results, submitted, landed>>


----------------------------------------------------------------------------
(* getClosableTokenAccounts *)

\* wallet address strings: the empty one, one new PublicKey() rejects, and a
\* well-formed one
WalletAddresses == {"", "not base58", "wallet"}

\* the guard, had it been left out
WalletAddressGuardDropped(address) == FALSE

\* the `if (!walletAddress)` guard
WalletAddressMissing(address) == address = ""

\* the message of the error the guard throws
EmptyWalletAddress == "wallet address must not be empty"

\* new PublicKey(walletAddress) throws
WalletKeyThrows(address) == address # "wallet"

\* no error; an error message is the sequence of the strings it is made of
NoScanError == <<>>

\* the error of the catch block, wrapping the message of the one caught
QueryFailed(message) == <<"query failed: ">> \o message

\* getAccountInfo answered null
NoAccountInfo == -1

\* lamports the ledger holds for the token account with public key k
HoldingLamports(k) == 2 * k

\* the filter, had it let balances of one unit through
UiAmountAtMostOne(account) == account.uiAmount <= 1

\* the filter: tokenAmount.uiAmount === 0
UiAmountIsZero(account) == account.uiAmount = 0

\* a record without account.data.parsed.info: the filter's callback reads
\* tokenAmount of undefined and throws a TypeError
FilterThrows(value) == \E k \in 1..Len(value) : ~value[k].parsed

\* the message of that TypeError
CannotReadProperty == "Cannot read properties of undefined"

\* tokenAccounts.value.filter(...), in the order of the answer
Filtered(value) == SelectSeq(value, UiAmountIsZero)

\* const rentLamports = accountInfo?.lamports || 0
RentLamports(info) == IF info = NoAccountInfo THEN 0 ELSE info

\* a lookup not made; info: what getAccountInfo answered
IdleLookup == [pc |-> "idle", info |-> NoAccountInfo, thrown |-> NoValue]

\* the TokenAccount the map callback returns for the account with key k
Candidate(k) ==
    [address |-> AddressOf(k),
     mint |-> "mint",
     rentLamports |-> RentLamports(lookup[k].info),
     rentSol |-> DivLamportsPerSol(Num(RentLamports(lookup[k].info), 0))]

\* accountInfos, once Promise.all is fulfilled
AccountInfos ==
    [n \in 1..Len(Filtered(tokenAccounts)) |->
        Candidate(Filtered(tokenAccounts)[n].pubkey)]

\* accountInfos.reduce((sum, account) => sum + account.rentLamports, 0)
RECURSIVE TotalRentLamports(_)
TotalRentLamports(infos) ==
    IF Len(infos) = 0 THEN 0
    ELSE TotalRentLamports(SubSeq(infos, 1, Len(infos) - 1))
            + infos[Len(infos)].rentLamports

\* the TokenAccountsResult of the return statement
ScanResult(value, infos) ==
    [totalAccounts |-> Len(value),
     closableAccounts |-> Len(infos),
     accounts |-> infos,
     totalRentLamports |-> TotalRentLamports(infos),
     totalRentSol |->
        DivLamportsPerSol(Num(TotalRentLamports(infos), 0))]

\* nothing returned
NoScanResult == ScanResult(<<>>, <<>>)

\* the call: the guard, the Connection, the PublicKey and the request for
\* the wallet's token accounts
ScanStart ==
    /\ spc = "start"
    /\ IF WalletAddressMissing(walletAddress)
       THEN /\ spc' = "raised"
            /\ scanRaised' = <<EmptyWalletAddress>>
            /\ UNCHANGED facadeCalls
       ELSE IF WalletKeyThrows(walletAddress)
       THEN /\ spc' = "raised"
            /\ scanRaised' = <<InvalidPublicKey>>
            /\ UNCHANGED facadeCalls
       ELSE /\ spc' = "owner"
            /\ facadeCalls' = facadeCalls + 1
            /\ UNCHANGED scanRaised
    /\ UNCHANGED <<closeVars, transferVars, managerVars, cancelVars,
                   walletAddress, holdings, tokenAccounts, lookup,
                   scanResult>>

\* await getParsedTokenAccountsByOwner resolves or rejects; then the filter,
\* which runs over the whole answer (a throw goes to the catch block), and
\* one getAccountInfo request per candidate.  Promise.all of no promise is
\* fulfilled at once.
OwnerReturns ==
    /\ spc = "owner"
    /\ \E failed \in BOOLEAN :
          IF failed
          THEN /\ spc' = "raised"
               /\ scanRaised' = 
                     QueryFailed(<<"getParsedTokenAccountsByOwner failed">>)
               /\ UNCHANGED <<tokenAccounts, lookup, scanResult, facadeCalls>>
          ELSE IF FilterThrows(holdings)
          THEN /\ tokenAccounts' = holdings
               /\ spc' = "raised"
               /\ scanRaised' = QueryFailed(<<CannotReadProperty>>)
               /\ UNCHANGED <<lookup, scanResult, facadeCalls>>
          ELSE /\ tokenAccounts' = holdings
               /\ lookup' = [k \in DOMAIN lookup |->
                               IF /\ k \in 1..Len(holdings)
                                  /\ UiAmountIsZero(holdings[k])
                               THEN [IdleLookup EXCEPT !.pc = "pending"]
                               ELSE lookup[k]]
               /\ facadeCalls' = facadeCalls + Len(Filtered(holdings))
               /\ IF Len(Filtered(holdings)) = 0
                  THEN /\ spc' = "done"
                       /\ scanResult' = ScanResult(holdings, <<>>)
                  ELSE /\ spc' = "lookups"
                       /\ UNCHANGED scanResult
               /\ UNCHANGED scanRaised
    /\ UNCHANGED <<closeVars, transferVars, managerVars, cancelVars,
                   walletAddress, holdings>>

\* await connection.getAccountInfo(account.pubkey) resolves, with the
\* account or with null, or rejects
LookupReturns(k) ==
    /\ k \in DOMAIN lookup
    /\ lookup[k].pc = "pending"
    /\ \E answer \in {"failed", "null", "account"} :
          lookup' = [lookup EXCEPT ![k] =
                        IF answer = "failed"
                        THEN [@ EXCEPT !.pc = "raised",
                                       !.thrown = "getAccountInfo failed"]
                        ELSE [@ EXCEPT !.pc = "done",
                                       !.info = IF answer = "null"
                                                THEN NoAccountInfo
                                                ELSE HoldingLamports(k)]]
    /\ UNCHANGED <<closeVars, transferVars, managerVars, cancelVars,
                   walletAddress, holdings, spc, tokenAccounts, scanResult,
                   scanRaised, facadeCalls>>

\* every lookup of the scan has answered
LookupsFulfilled == \A k \in DOMAIN lookup : lookup[k].pc \in {"idle", "done"}

LookupRejected == \E k \in DOMAIN lookup : lookup[k].pc = "raised"

\* await Promise.all settles: the totals and the return, or the catch block
ScanJoin ==
    /\ spc = "lookups"
    /\ LookupsFulfilled \/ LookupRejected
    /\ IF LookupRejected
       THEN /\ spc' = "raised"
            /\ scanRaised' =
                  QueryFailed(<<lookup[CHOOSE k \in DOMAIN lookup :
                                          lookup[k].pc = "raised"].thrown>>)
            /\ UNCHANGED scanResult
       ELSE /\ spc' = "done"
            /\ scanResult' = ScanResult(tokenAccounts, AccountInfos)
            /\ UNCHANGED scanRaised
    /\ UNCHANGED <<closeVars, transferVars, managerVars, cancelVars,
                   walletAddress, holdings, tokenAccounts, lookup,
                   facadeCalls>>

\* no scan is asked for
ScanIdle ==
    /\ walletAddress = ""
    /\ holdings = <<>>
    /\ spc = "idle"
    /\ tokenAccounts = <<>>
    /\ lookup = [k \in 1..MaxHoldings |-> IdleLookup]
    /\ scanResult = NoScanResult
    /\ scanRaised = NoScanError
    /\ facadeCalls = 0
----------------------------------------------------------------------------
(* The manager that is not running *)

\* no transfer is asked for
TransferIdle ==
    /\ toAddress = BadAddress
    /\ config = [computeUnitPrice |-> Absent, computeUnitLimit |-> Absent]
    /\ count = 0
    /\ tpc = "idle"
    /\ ti = 0
    /\ results = <<>>
    /\ xfer = IdleTransfer
    /\ calls = <<>>
    /\ submitted = 0
    /\ pauses = 0
    /\ landed = 0

\* no closure is asked for
CloseIdle ==
    /\ variant = "toolkit"
    /\ accounts = <<>>
    /\ batchSize = 1
    /\ pc = "idle"
    /\ i = 0
    /\ successCount = 0
    /\ failCount = 0
    /\ totalRentRecovered = Zero
    /\ balanceBeforeSOL = Zero
    /\ processed = 0
    /\ succeeded = 0
    /\ batch = <<>>
    /\ raisedBy = NoValue
    /\ report = NoReport
    /\ op = [p \in 1..MaxTargets |-> IdleOp]
    /\ tokenAmount = [p \in 1..MaxTargets |-> 0]
    /\ closed = [p \in 1..MaxTargets |-> FALSE]
    /\ chunks = <<>>
    /\ attempts = [p \in 1..MaxTargets |-> 0]
    /\ joined = 0
    /\ delays = 0

----------------------------------------------------------------------------
(* The closure runs *)

\* the lists batchCloseAccounts is called with: a TokenAccount per
\* position, its address well-formed or not
AccountLists ==
    UNION {[1..n -> BOOLEAN] : n \in 0..MaxTargets}

\* batchCloseAccounts(accounts, batchSize) is called with a batchSize of
\* `sizes`
CloseCalled(sizes) ==
    /\ Constructed
    /\ variant \in Variants
    /\ \E wellFormed \in AccountLists :
          accounts = [p \in DOMAIN wellFormed |->
                         [address |-> IF wellFormed[p]
                                      THEN AddressOf(p) ELSE BadAddress,
                          rentLamports |-> AccountLamports(p)]]
    /\ batchSize \in sizes
    /\ pc = "start"
    /\ i = 0
    /\ successCount = 0
    /\ failCount = 0
    /\ totalRentRecovered = Zero
    /\ balanceBeforeSOL = Zero
    /\ processed = 0
    /\ succeeded = 0
    /\ batch = <<>>
    /\ raisedBy = NoValue
    /\ report = NoReport
    /\ op = [p \in 1..MaxTargets |-> IdleOp]
    /\ tokenAmount = [p \in 1..MaxTargets |-> 0]
    /\ closed = [p \in 1..MaxTargets |-> FALSE]
    /\ chunks = <<>>
    /\ attempts = [p \in 1..MaxTargets |-> 0]
    /\ joined = 0
    /\ delays = 0
    /\ TransferIdle
    /\ ScanIdle

\* the runs with a chunk size of one or more
CloseInit == CloseCalled(1..MaxBatch)

CloseNext ==
    \/ ScriptStart
    \/ BalanceBeforeReturns
    \/ ScriptJoin
    \/ ScriptDelayElapses
    \/ BalanceAfterReturns
    \/ ToolkitStart
    \/ ToolkitJoin
    \/ ToolkitDelayElapses
    \/ \E p \in 1..MaxTargets : GetAccountReturns(p)
    \/ \E p \in 1..MaxTargets : GetBalanceReturns(p)
    \/ \E p \in 1..MaxTargets : SendAndConfirmReturns(p)
    \/ \E p \in 1..MaxTargets : Deposit(p)

CloseSpec == CloseInit /\ [][CloseNext]_vars


\* a closure run whose caller may ask it to stop
CancelNext == CloseNext \/ RequestCancel

CancelSpec == CloseInit /\ [][CancelNext]_vars

\* the runs with any batchSize the signature `batchSize = 8` (a number)
\* permits: zero and the negative sizes too
SizeInit == CloseCalled((0 - MaxBatch)..MaxBatch)

SizeSpec == SizeInit /\ [][CloseNext]_vars
----------------------------------------------------------------------------
(* The transfer runs *)

TransferConfigs ==
    [computeUnitPrice : {Absent, 0, DefaultComputeUnitPrice},
     computeUnitLimit : {Absent, 0, DefaultComputeUnitLimit}]

TransferInit ==
    /\ Constructed
    /\ toAddress \in {BadAddress, AddressOf(1)}
    /\ config \in TransferConfigs
    /\ count \in (0 - 1)..MaxCount
    /\ tpc = "start"
    /\ ti = 0
    /\ results = <<>>
    /\ xfer = IdleTransfer
    /\ calls = <<>>
    /\ submitted = 0
    /\ pauses = 0
    /\ landed = 0
    /\ CloseIdle
    /\ ScanIdle

TransferNext ==
    \/ BatchTransferStart
    \/ TransferResolves
    \/ TransferDelayElapses
    \/ BlockhashReturns
    \/ SimulateReturns
    \/ SendReturns
    \/ ConfirmReturns

TransferSpec == TransferInit /\ [][TransferNext]_vars


----------------------------------------------------------------------------
(* The scan runs *)

\* the token accounts a wallet may own, as the endpoint reports them: public
\* key k at position k, each with a reported balance or, malformed, without
\* its parsed data
HoldingLists ==
    UNION {[1..n -> [pubkey : 1..MaxHoldings, uiAmount : 0..1,
                     parsed : BOOLEAN]] :
              n \in 0..MaxHoldings}

ScanInit ==
    /\ Constructed
    /\ walletAddress \in WalletAddresses
    /\ holdings \in {h \in HoldingLists :
                        \A k \in DOMAIN h :
                           /\ h[k].pubkey = k
                           /\ ~h[k].parsed => h[k].uiAmount = 0}
    /\ spc = "start"
    /\ tokenAccounts = <<>>
    /\ lookup = [k \in 1..MaxHoldings |-> IdleLookup]
    /\ scanResult = NoScanResult
    /\ scanRaised = NoScanError
    /\ facadeCalls = 0
    /\ CloseIdle
    /\ TransferIdle

ScanNext ==
    \/ ScanStart
    \/ OwnerReturns
    \/ ScanJoin
    \/ \E k \in 1..MaxHoldings : LookupReturns(k)

ScanSpec == ScanInit /\ [][ScanNext]_vars

----------------------------------------------------------------------------
(* The toolkit: one of its entry points is called *)

Init == CloseInit \/ TransferInit \/ ScanInit

Next == CloseNext \/ TransferNext \/ ScanNext

Spec == Init /\ [][Next]_vars
----------------------------------------------------------------------------
(* closeAccount and transfer: the claims *)

\* C1: a closeAccount call whose getAccount answered a non-zero token amount
\* has returned success = false with the balance-not-zero error and without
\* a signature, has handed nothing to sendAndConfirmTransaction, and has
\* asked getAccount once.
C1_NonZeroBalanceIsNotClosed ==
    \A p \in 1..MaxTargets :
        op[p].amount > 0 =>
            /\ op[p].pc = "done"
            /\ ~op[p].result.success
            /\ op[p].result.error = BalanceNotZeroError
            /\ op[p].result.signature = NoValue
            /\ op[p].sendCalls = 0
            /\ op[p].getAccountCalls = 1

\* a call has seen a non-zero amount and returned
C1_Witness ==
    \E p \in 1..MaxTargets : op[p].amount > 0 /\ op[p].pc = "done"

\* C2: a transfer call whose simulation reported an error has returned
\* success = false with an error, and has invoked neither sign nor
\* sendTransaction nor confirmTransaction.
C2_SimulationErrorIsNotSent ==
    xfer.simulateErr # NoValue =>
        /\ xfer.pc = "done"
        /\ ~xfer.result.success
        /\ xfer.result.error # NoValue
        /\ \A k \in 1..Len(calls) : calls[k] \notin {"sign", "send", "confirm"}

\* a simulation has reported an error
C2_Witness ==
    /\ xfer.simulateErr = "InsufficientFundsForFee"
    /\ xfer.pc = "done"

\* C3: no closeAccount call ends with a rejected promise; a call in which a
\* facade call threw has returned an outcome with success = false and the
\* thrown error's message.
C3_CloseAccountNeverRaises ==
    \A p \in 1..MaxTargets :
        /\ op[p].pc # "raised"
        /\ op[p].thrown # NoValue =>
              /\ op[p].pc = "done"
              /\ ~op[p].result.success
              /\ op[p].result.error = op[p].thrown
              /\ op[p].result.signature = NoValue

\* in one chunk getBalance has failed for one account and
\* sendAndConfirmTransaction for another
C3_Witness ==
    \E p, q \in 1..MaxTargets :
        /\ op[p].thrown = "getBalance failed"
        /\ op[q].thrown \in {"send failed", "not confirmed", "ledger rejected"}

\* C4: no transfer call ends with a rejected promise, so batchTransfer does
\* not either; a call in which a step threw (the PublicKey constructor for a
\* malformed destination included) has returned an outcome with
\* success = false and the thrown error's message.
C4_TransferNeverRaises ==
    /\ xfer.pc # "raised"
    /\ tpc # "raised"
    /\ xfer.thrown # NoValue =>
          /\ xfer.pc = "done"
          /\ ~xfer.result.success
          /\ xfer.result.error = xfer.thrown
          /\ xfer.result.signature = NoValue

\* a transfer to a malformed destination has returned
C4_Witness ==
    /\ PublicKeyThrows(toAddress)
    /\ xfer.pc = "done"
    /\ xfer.thrown = InvalidPublicKey
    /\ Len(results) > 0

----------------------------------------------------------------------------
(* batchCloseAccounts: the claims *)

\* the run has ended: the function returned or rejected
Ended == pc \in {"done", "raised"}

\* C5: no target is handed to closeAccount twice, and when the run has ended
\* every target was handed to it once.
C5_EveryTargetAttemptedOnce ==
    /\ \A p \in Positions : attempts[p] <= 1
    /\ Ended => \A p \in Positions : attempts[p] = 1

\* what the run reports as processed
Processed ==
    IF variant = "script" THEN successCount + failCount ELSE processed

\* what the run reports as succeeded
Succeeded == IF variant = "script" THEN successCount ELSE succeeded

\* C6: a run that has ended has returned, and its counts cover every target.
C6_BatchFinishesWithFullReport ==
    Ended => pc = "done" /\ Processed = Len(accounts)

\* C7: a malformed address does not make batchCloseAccounts reject, and when
\* the run has ended every well-formed target was handed to closeAccount.
C7_MalformedAddressFailsOnlyItsItem ==
    /\ raisedBy # InvalidPublicKey
    /\ Ended => \A p \in Positions :
                   ~PublicKeyThrows(accounts[p].address) => attempts[p] = 1

\* ceil(n / b)
Ceil(n, b) == (n + b - 1) \div b

\* the k-th chunk of n targets cut into chunks of b
ExpectedChunk(n, b, k) ==
    [j \in 1..(IF k < Ceil(n, b) THEN b ELSE n - b * (Ceil(n, b) - 1))
        |-> (k - 1) * b + j]

\* C8: the chunks formed so far are the first chunks of the partition of the
\* list, in input order, into ceil(n/b) consecutive chunks, each of b targets
\* but the last, which has n - b*(ceil(n/b)-1); a run that reached the end
\* of its loop formed all ceil(n/b) of them.
C8_ChunksPartitionTheList ==
    /\ Len(chunks) <= Ceil(Len(accounts), batchSize)
    /\ \A k \in 1..Len(chunks) :
          chunks[k] = ExpectedChunk(Len(accounts), batchSize, k)
    /\ pc \in {"balanceAfter", "done"} =>
          Len(chunks) = Ceil(Len(accounts), batchSize)

\* a run has formed two full chunks and a shorter last one
C8_Witness ==
    /\ pc = "done"
    /\ Len(chunks) = 3
    /\ Len(chunks[1]) = batchSize
    /\ Len(chunks[2]) = batchSize
    /\ Len(chunks[3]) < batchSize

\* C9: when an operation of chunk k is started, every operation of every
\* earlier chunk has returned and k-1 inter-batch delays have elapsed; while
\* the delay after a chunk runs no later chunk exists.
C9_ChunksRunInSequence ==
    /\ \A k \in 2..Len(chunks) :
          (\E j \in 1..Len(chunks[k]) : op[chunks[k][j]].pc # "idle") =>
              /\ \A m \in 1..(k - 1) : \A j \in 1..Len(chunks[m]) :
                    op[chunks[m][j]].pc = "done"
              /\ delays >= k - 1
    /\ pc = "delay" => delays = Len(chunks) - 1

\* a second chunk is running
C9_Witness ==
    /\ Len(chunks) >= 2
    /\ \E j \in 1..Len(chunks[2]) : op[chunks[2][j]].pc = "getBalance"

\* the targets whose outcome has been joined
RECURSIVE JoinedTargets(_)
JoinedTargets(k) == IF k = 0 THEN 0 ELSE JoinedTargets(k - 1) + Len(chunks[k])

C10_CountersInRange ==
    /\ 0 <= Succeeded
    /\ Succeeded <= Processed
    /\ Processed <= Len(accounts)
    /\ Processed = JoinedTargets(joined)
    /\ variant = "script" => failCount = JoinedTargets(joined) - successCount
    /\ pc = "done" => Processed = Len(accounts)

\* C10: 0 <= succeeded <= processed <= totalTargets, processed counts the
\* targets whose outcome was joined and failed = processed - succeeded;
\* neither processed nor succeeded ever decreases; when the run has returned
\* processed = totalTargets.
C10_ProgressCounters ==
    /\ []C10_CountersInRange
    /\ [][Processed' >= Processed /\ Succeeded' >= Succeeded]_vars

\* a run has returned with some targets succeeded and some failed
C10_Witness ==
    /\ pc = "done"
    /\ Succeeded > 0
    /\ Processed - Succeeded > 0
    /\ Len(chunks) >= 2


----------------------------------------------------------------------------
(* Empty lists and the reconciliation: the claims *)

\* C11: batchCloseAccounts called with the empty list ends with closing
\* statistics that say 0 targets, 0 succeeded and 0 failed, having made
\* no closeAccount call and waited for no inter-batch delay.
C11_EmptyListReportsZero ==
    (Len(accounts) = 0 /\ pc # "start") =>
        /\ pc = "done"
        /\ report.kind # "none"
        /\ report.kind = "toolkit" =>
              /\ report.total = 0
              /\ report.succeeded = 0
              /\ report.failed = 0
        /\ report.kind = "script" =>
              /\ report.successCount = 0
              /\ report.failCount = 0
        /\ \A p \in 1..MaxTargets : attempts[p] = 0
        /\ chunks = <<>>
        /\ delays = 0

\* C12: the closing statistics of the script carry
\* gasConsumed = (balanceAfter - balanceBefore) - totalRentRecovered, all
\* three in SOL; the equation is checked on the lamport counts.
C12_IncidentalCost ==
    report.kind = "script" =>
        /\ report.actualRecovered.n =
              report.balanceAfterSOL.n - report.balanceBeforeSOL.n
        /\ report.gasLamports.n =
              (report.balanceAfterSOL.n - report.balanceBeforeSOL.n)
                 - report.totalRentRecovered.n
        /\ report.totalRentRecovered = totalRentRecovered

\* the wallet held 1000 before and 1008 after, the outcomes reported 10
\* recovered: the incidental cost is -2
C12_Witness ==
    /\ report.kind = "script"
    /\ report.balanceBeforeSOL.n = 1000
    /\ report.balanceAfterSOL.n = 1008
    /\ report.totalRentRecovered.n = 10
    /\ report.gasLamports.n = 0 - 2

----------------------------------------------------------------------------
(* transfer: the claims *)

\* the steps of a transfer call, in the order of the code
StepOrder == <<"build", "blockhash", "simulate", "sign", "send", "confirm">>

\* the steps a transfer call has taken are the first steps of StepOrder, and
\* it has signed only after a simulation without error
C13_StepsInOrder ==
    /\ Len(calls) <= Len(StepOrder)
    /\ \A k \in 1..Len(calls) : calls[k] = StepOrder[k]
    /\ Len(calls) >= 4 => xfer.simulateErr = NoValue

\* C13: a transfer call takes its steps in the order build, (blockhash,)
\* simulate, sign, send, confirm only: no step before the one ahead of it,
\* sign only after a simulation that reported no error; and a call that has
\* returned takes no further step.
C13_TransferStepOrder ==
    /\ []C13_StepsInOrder
    /\ [][(xfer.pc = "done" /\ tpc' = tpc) =>
              (calls' = calls /\ xfer' = xfer)]_vars

\* a transfer has taken all its steps and succeeded, after one that failed
C13_Witness ==
    /\ calls = StepOrder
    /\ xfer.pc = "done"
    /\ xfer.result.success
    /\ Len(results) = 1
    /\ ~results[1].success

\* C14: the instruction list of a transfer call is the unit price directive
\* if and only if config supplies computeUnitPrice, then the unit limit
\* directive if and only if config supplies computeUnitLimit, then the
\* transfer instruction, once and last.
C14_InstructionList ==
    Len(calls) >= 2 =>
        xfer.instructions =
            (IF config.computeUnitPrice # Absent
             THEN <<[kind |-> "setComputeUnitPrice",
                     value |-> config.computeUnitPrice]>>
             ELSE <<>>)
            \o (IF config.computeUnitLimit # Absent
                THEN <<[kind |-> "setComputeUnitLimit",
                        value |-> config.computeUnitLimit]>>
                ELSE <<>>)
            \o <<TransferInstruction>>

\* C15: a transfer whose confirmation was not seen before lastValidBlockHeight
\* passed has returned success = false with the error "confirmation timeout".
C15_ConfirmationTimeout ==
    xfer.thrown = ExpiredMessage =>
        /\ xfer.pc = "done"
        /\ ~xfer.result.success
        /\ xfer.result.error = "confirmation timeout"

\* C16: the error of the outcome of a transfer whose simulation reported an
\* error is that error, as the simulation reported it.
C16_SimulationErrorVerbatim ==
    xfer.simulateErr # NoValue =>
        /\ xfer.pc = "done"
        /\ ~xfer.result.success
        /\ xfer.result.error = xfer.simulateErr

----------------------------------------------------------------------------
(* Outcomes: the claims *)

\* success with a signature and no error, or failure with an error and no
\* signature
WellFormed(outcome) ==
    IF outcome.success
    THEN outcome.signature # NoValue /\ outcome.error = NoValue
    ELSE outcome.signature = NoValue /\ outcome.error # NoValue

\* a successful transfer outcome carries the simulation value and the url
WellFormedTransfer(outcome) ==
    /\ WellFormed(outcome)
    /\ outcome.success =>
          outcome.simulateResult # NoValue /\ outcome.url # NoValue

\* C17: every outcome closeAccount or transfer has returned has a signature
\* and no error when success is true (a transfer's also the simulation value
\* and the url), and an error and no signature when success is false.
C17_OutcomesWellFormed ==
    /\ \A p \in 1..MaxTargets :
          (op[p].pc = "done" /\ op[p].getAccountCalls > 0) =>
              WellFormed(op[p].result)
    /\ xfer.pc = "done" => WellFormedTransfer(xfer.result)
    /\ \A k \in 1..Len(results) : WellFormedTransfer(results[k])

\* one chunk holds a successful closure and a failed one
C17_Witness ==
    \E p, q \in 1..MaxTargets :
        /\ op[p].pc = "done" /\ op[p].getAccountCalls > 0
        /\ op[q].pc = "done" /\ op[q].getAccountCalls > 0
        /\ op[p].result.success
        /\ ~op[q].result.success

\* C18: every successful closure outcome carries, as rentRecovered, the
\* lamport deposit the account held before the closure (in SOL), and the
\* script's closing statistics of a run in which nothing failed carry the
\* sum of the deposits as the total recovered.
C18_RentRecoveredIsDeposit ==
    /\ \A p \in 1..MaxTargets :
          (op[p].pc = "done" /\ op[p].result.success) =>
              op[p].result.rentRecovered =
                 DivLamportsPerSol(Num(AccountLamports(p), 0))
    /\ (report.kind = "script" /\ report.failCount = 0) =>
          report.totalRentRecovered =
             DivLamportsPerSol(
                Num((Len(accounts) * (Len(accounts) + 1)) \div 2, 0))

----------------------------------------------------------------------------
(* getClosableTokenAccounts: the claims *)

\* the positions of the wallet's holdings whose reported balance is zero,
\* in order
RECURSIVE ZeroBalanceKeys(_)
ZeroBalanceKeys(n) ==
    IF n = 0 THEN <<>>
    ELSE IF tokenAccounts[n].uiAmount = 0
         THEN Append(ZeroBalanceKeys(n - 1), tokenAccounts[n].pubkey)
         ELSE ZeroBalanceKeys(n - 1)

\* the sum of the rentLamports of the first n candidates returned
RECURSIVE RentOfFirst(_)
RentOfFirst(n) ==
    IF n = 0 THEN 0
    ELSE RentOfFirst(n - 1) + scanResult.accounts[n].rentLamports

\* C19: the scan has returned exactly the wallet's token accounts reported
\* with a balance of zero, each once and in the order reported; each with, as
\* rentLamports, the lamports its getAccountInfo lookup answered (0 when the
\* lookup found no account); closableAccounts is the length of the list and
\* at most totalAccounts, and totalRentLamports is the sum of the
\* candidates' rentLamports.
C19_ScanReturnsZeroBalanceHoldings ==
    spc = "done" =>
        /\ [n \in 1..Len(scanResult.accounts) |->
               scanResult.accounts[n].address]
              = [n \in 1..Len(ZeroBalanceKeys(Len(tokenAccounts))) |->
                    AddressOf(ZeroBalanceKeys(Len(tokenAccounts))[n])]
        /\ \A n \in 1..Len(scanResult.accounts) :
              LET k == ZeroBalanceKeys(Len(tokenAccounts))[n]
              IN  /\ lookup[k].pc = "done"
                  /\ scanResult.accounts[n].rentLamports =
                        IF lookup[k].info = NoAccountInfo
                        THEN 0 ELSE lookup[k].info
        /\ scanResult.totalAccounts = Len(tokenAccounts)
        /\ scanResult.closableAccounts = Len(scanResult.accounts)
        /\ scanResult.closableAccounts <= scanResult.totalAccounts
        /\ scanResult.totalRentLamports =
              RentOfFirst(Len(scanResult.accounts))

\* the scan has returned two of three holdings, one of them with a balance;
\* one lookup answered an account and the other none
C19_Witness ==
    /\ spc = "done"
    /\ scanResult.totalAccounts = 3
    /\ scanResult.closableAccounts = 2
    /\ scanResult.totalRentLamports > 0
    /\ \E n \in 1..2 : scanResult.accounts[n].rentLamports = 0

\* C20: the scan called with the empty wallet address has rejected with the
\* empty-address error, and no request has gone through the Connection.
C20_EmptyWalletAddressRejected ==
    (walletAddress = "" /\ spc # "start") =>
        /\ spc = "raised"
        /\ scanRaised = <<EmptyWalletAddress>>
        /\ facadeCalls = 0

\* the scan was called with the empty address, for a wallet that owns
\* token accounts, and has ended
C20_Witness ==
    /\ walletAddress = ""
    /\ spc = "raised"
    /\ Len(holdings) > 0

----------------------------------------------------------------------------
(* Failures and retries: the claims *)

\* C21: a scan whose answer holds a malformed record does not reject because
\* of it: the record is skipped and the scan goes on.
C21_MalformedRecordSkipped ==
    (\E k \in 1..Len(tokenAccounts) : ~tokenAccounts[k].parsed) =>
        ~(spc = "raised" /\ scanRaised = QueryFailed(<<CannotReadProperty>>))

\* C22: a closeAccount call that has returned the failure of a facade
\* request has made that request more than once: one failed request alone
\* does not fail the item.
C22_FacadeFailureRetried ==
    \A p \in 1..MaxTargets :
        (op[p].pc = "done" /\ op[p].thrown = "getAccount failed") =>
            op[p].getAccountCalls > 1

\* C23: batchCloseAccounts, once called, never rejects with the failure of a
\* facade request, the wallet-balance lookups before and after the chunks
\* included.
C23_NoNetworkFailurePropagates ==
    ~(pc = "raised" /\ raisedBy = "getBalance failed")

\* how often step occurs among the steps taken
Occurrences(steps, step) ==
    Cardinality({k \in 1..Len(steps) : steps[k] = step})

\* the transfer calls batchTransfer has made
TransfersCalled == Len(results) + (IF tpc = "transfer" THEN 1 ELSE 0)

\* C24: one transfer call asks for a blockhash at most once and hands a
\* transaction to sendTransaction at most once, with maxRetries 3, also after
\* a failed or expired confirmation; one closeAccount call hands a transaction
\* to sendAndConfirmTransaction at most once, with maxRetries 3.
C24_NoResubmission ==
    /\ Occurrences(calls, "blockhash") <= 1
    /\ Occurrences(calls, "send") <= 1
    /\ Occurrences(calls, "send") = 1 => xfer.maxRetries = 3
    /\ submitted <= TransfersCalled
    /\ \A p \in 1..MaxTargets :
          /\ op[p].sendCalls <= 1
          /\ op[p].sendCalls = 1 => op[p].maxRetries = 3

\* a transfer was sent once, its confirmation expired, and it has returned
C24_Witness ==
    /\ xfer.pc = "done"
    /\ xfer.thrown = ExpiredMessage
    /\ Occurrences(calls, "send") = 1
    /\ submitted = 1

\* the outcome of a call that failed at the simulation
FailedAtSimulation(outcome) ==
    /\ ~outcome.success
    /\ \E err \in SimulationErrors \ {NoValue} :
          outcome.error = SimulationErrorMessage(err)

\* the outcomes of the calls before the last one made
EarlierOutcomes == SubSeq(results, 1, TransfersCalled - 1)

\* C25: when every transfer call before the last one made failed at the
\* simulation, at most one transaction has been handed to sendTransaction
\* over all the calls.
C25_RetryAfterSimulationFailure ==
    (\A k \in 1..Len(EarlierOutcomes) :
        FailedAtSimulation(EarlierOutcomes[k])) =>
        submitted <= 1

\* a call failed at the simulation and the next one sent its transaction
C25_Witness ==
    /\ TransfersCalled = 2
    /\ FailedAtSimulation(results[1])
    /\ submitted = 1

----------------------------------------------------------------------------
(* batchTransfer: the claims *)

\* batchTransfer has made as many transfer calls as count says (none for
\* count <= 0) and holds one outcome per call
C27_CountReached ==
    /\ Len(results) <= Max(count, 0)
    /\ tpc = "done" => Len(results) = Max(count, 0) /\ ti = Max(count, 0)

\* C27: batchTransfer returns exactly count outcomes (none for count <= 0),
\* one per transfer call and in the order of the calls, whatever the
\* outcomes are: the outcome of the call with index ti is pushed at
\* position ti + 1.
C27_BatchTransferOutcomes ==
    /\ []C27_CountReached
    /\ [][Len(results') > Len(results) =>
             /\ results' = Append(results, xfer.result)
             /\ Len(results) = ti
             /\ xfer.pc = "done"]_vars

\* two transfers asked for: the first failed, the second succeeded, and
\* batchTransfer has returned
C27_Witness ==
    /\ tpc = "done"
    /\ count = 2
    /\ Len(results) = 2
    /\ ~results[1].success
    /\ results[2].success

----------------------------------------------------------------------------
(* The manager's fields: the claims *)

\* no string field of the outcome is the secret key
NoKeyMaterial(outcome) ==
    /\ outcome.signature # wallet.secretKey
    /\ outcome.error # wallet.secretKey

\* no outcome held carries the secret key
C28_OutcomesWithoutKey ==
    /\ \A p \in 1..MaxTargets : NoKeyMaterial(op[p].result)
    /\ NoKeyMaterial(xfer.result)
    /\ xfer.result.simulateResult # wallet.secretKey
    /\ xfer.result.url # wallet.secretKey
    /\ \A k \in 1..Len(results) : NoKeyMaterial(results[k])

\* C28: no step of closeAccount, batchCloseAccounts, transfer or
\* batchTransfer assigns the manager's wallet or connection, and no outcome
\* carries the secret key.
C28_ManagerFieldsReadOnly ==
    /\ []C28_OutcomesWithoutKey
    /\ [][wallet' = wallet /\ connection' = connection]_vars

\* a closure was signed with the wallet and succeeded
C28_Witness ==
    \E p \in 1..MaxTargets :
        /\ op[p].pc = "done"
        /\ op[p].result.success
        /\ op[p].result.signature # NoValue

----------------------------------------------------------------------------
(* The zero-balance guard: the claims *)

\* C29: a closeAccount call that has handed its transaction to
\* sendAndConfirmTransaction had asked getAccount, once, and got a token
\* amount of zero: the guard comes before the close instruction and the send.
C29_CheckBeforeSend ==
    \A p \in 1..MaxTargets :
        op[p].sendCalls > 0 =>
            /\ op[p].amount = 0
            /\ op[p].getAccountCalls = 1

\* a call has passed the guard and sent its transaction
C29_Witness ==
    \E p \in 1..MaxTargets :
        /\ op[p].pc = "send"
        /\ op[p].sendCalls = 1
        /\ op[p].amount = 0

\* C30: whenever a closeAccount call hands its transaction to
\* sendAndConfirmTransaction, the account's token balance on the ledger is
\* zero at that moment, whatever deposits other parties made.
C30_ZeroBalanceAtSubmission ==
    [][\A p \in 1..MaxTargets :
          (op[p].pc # "send" /\ op'[p].pc = "send") => tokenAmount[p] = 0]_vars

----------------------------------------------------------------------------
(* Cancellation: the claims *)

\* C26: once the caller of a running batch has asked it to stop, no further
\* chunk is launched.
C26_CancelAtChunkBoundary ==
    cancelledAt # Absent => Len(chunks) <= cancelledAt
----------------------------------------------------------------------------
(* Concurrency of a batch run *)

\* the positions whose closeAccount call has been made and has not returned
InFlight == {p \in Positions : op[p].pc \in {"getAccount", "getBalance", "send"}}

\* the positions of the chunk b
ChunkPositions(b) == {b[k] : k \in 1..Len(b)}

\* C31: at every moment of a batch run at most batchSize closeAccount calls
\* are in flight, and the calls in flight are all of the chunk being
\* awaited.
C31_BoundedConcurrency ==
    InFlight # {} =>
        /\ Cardinality(InFlight) <= batchSize
        /\ InFlight \subseteq ChunkPositions(batch)

\* the same for the runs with a chunk size of one or more
C31_BoundedForPositiveSizes == batchSize >= 1 => C31_BoundedConcurrency

\* calls are in flight in a run with a chunk size of one or more
C31_PositiveSizesInFlight == batchSize = MaxBatch /\ Cardinality(InFlight) = MaxBatch

----------------------------------------------------------------------------
(* Termination of the chunk loop *)

\* C33: whatever the batchSize, every iteration of the chunk loop takes at
\* least one target and moves the position forward by it, so a run makes at
\* most one iteration per target and then leaves the loop.
C33_EveryIterationAdvances ==
    /\ \A k \in 1..Len(chunks) : Len(chunks[k]) >= 1
    /\ Len(chunks) <= Len(accounts)
    /\ variant = "script" /\ Len(chunks) >= 1 => i >= 0

\* the same for the runs with a chunk size of one or more
C33_AdvancesForPositiveSizes == batchSize >= 1 => C33_EveryIterationAdvances

\* a run over a non-empty list with a batchSize of zero or less never
\* leaves its loop
C33_NonPositiveSizeNeverReturns ==
    batchSize <= 0 /\ Len(accounts) >= 1 => pc \notin {"balanceAfter", "done"}

----------------------------------------------------------------------------
(* Aggregation *)

\* the counters of a batch run
Counters ==
    <<successCount, failCount, totalRentRecovered, processed, succeeded>>

\* the calls of the chunk b that returned a successful outcome
SuccessesOf(b) == {p \in ChunkPositions(b) : op[p].result.success}

\* C32: a counter of the batch changes only in the step that follows the
\* join of the chunk awaited, when no closeAccount call is in flight, and
\* the step adds every outcome of the chunk: the chunk's length to processed
\* and the number of its successes to succeeded.
C32_CountersUpdatedAfterJoin ==
    [][Counters' # Counters =>
          /\ pc = "join"
          /\ InFlight = {}
          /\ joined' = joined + 1
          /\ Processed' = Processed + Len(batch)
          /\ Succeeded' = Succeeded + Cardinality(SuccessesOf(batch))]_vars

\* the outcomes of a chunk of two calls, both successful, have been added
C32_Witness ==
    /\ joined = 1
    /\ Len(chunks[1]) = 2
    /\ Succeeded = 2
    /\ Processed = 2

----------------------------------------------------------------------------
(* Successful outcomes and the ledger *)

\* the outcomes of the batch transfer so far that report success
SuccessfulTransfers == {k \in 1..Len(results) : results[k].success}

\* the positions whose close transaction landed
ClosedPositions == {p \in 1..MaxTargets : closed[p]}

\* C34: an outcome with success = true is that of a call that handed one
\* transaction to the ledger and saw its confirmation return without error;
\* so the successes counted by a batch never exceed the transactions that
\* landed.
C34_SuccessIsOneConfirmedTransaction ==
    /\ xfer.result.success =>
          /\ Occurrences(calls, "send") = 1
          /\ Occurrences(calls, "confirm") = 1
          /\ xfer.confirmation = "ok"
          /\ xfer.result.signature = xfer.signature
    /\ Cardinality(SuccessfulTransfers) <= landed
    /\ Cardinality(SuccessfulTransfers) <= submitted
    /\ \A p \in 1..MaxTargets :
          op[p].result.success => op[p].sendCalls = 1 /\ closed[p]
    /\ Succeeded <= Cardinality(ClosedPositions)

\* a batch transfer has returned one success and one outcome of a
\* transaction whose confirmation came back with an error
C34_Witness ==
    /\ tpc = "done"
    /\ Len(results) = 2
    /\ results[1].success
    /\ ~results[2].success
    /\ xfer.confirmation = "err"
    /\ landed = 1

----------------------------------------------------------------------------
(* The confirmation deadline *)

\* C35: the blockhash and lastValidBlockHeight a transfer call hands to
\* confirmTransaction are those of the one getLatestBlockhash answer whose
\* blockhash the message sent was compiled with: the deadline is the expiry
\* height of the blockhash in the transaction.
C35_DeadlineOfTheEmbeddedBlockhash ==
    /\ Occurrences(calls, "blockhash") <= 1
    /\ Occurrences(calls, "confirm") >= 1 =>
          /\ xfer.confirmWith.blockhash = xfer.recentBlockhash
          /\ xfer.confirmWith \in Blockhashes
          /\ xfer.confirmWith = xfer.latestBlockhash

\* a transaction compiled with the second blockhash is awaited
C35_Witness ==
    /\ xfer.pc = "confirm"
    /\ xfer.recentBlockhash = 2
    /\ xfer.confirmWith.lastValidBlockHeight = 152

----------------------------------------------------------------------------
(* Pacing of a batch transfer *)

\* the transfer call has been made and has not returned
TransferInFlight == xfer.pc \in {"blockhash", "simulate", "send", "confirm"}

\* C36: batchTransfer has one transfer in flight at most; the transfer with
\* index i is in flight only when the i transfers before it have returned
\* their outcomes and i delays have elapsed; while a delay runs no transfer
\* is in flight; and a batch that has returned has paused count - 1 times:
\* once between consecutive transfers and not after the last.
C36_TransfersOneAtATime ==
    /\ TransferInFlight => tpc = "transfer"
    /\ tpc = "transfer" => Len(results) = ti /\ pauses = ti /\ ti < count
    /\ tpc = "delay" =>
          /\ xfer.pc = "done"
          /\ Len(results) = ti + 1
          /\ pauses = ti
          /\ ti + 1 < count
    /\ tpc = "done" =>
          /\ ~TransferInFlight
          /\ Len(results) = Max(count, 0)
          /\ pauses = Max(count - 1, 0)

\* the last transfer of a batch of MaxCount is in flight
C36_Witness ==
    /\ count = MaxCount
    /\ ti = MaxCount - 1
    /\ TransferInFlight
    /\ pauses = MaxCount - 1

----------------------------------------------------------------------------
(* Failed outcomes and the total recovered *)

\* the sum of rentRecovered over the outcomes of the calls at positions S
RECURSIVE RecoveredBy(_)
RecoveredBy(S) ==
    IF S = {} THEN Zero
    ELSE LET p == CHOOSE q \in S : TRUE
         IN  NumAdd(op[p].result.rentRecovered, RecoveredBy(S \ {p}))

\* every outcome with success = false has rentRecovered = 0
C37_FailedOutcomesRecoverNothing ==
    \A p \in 1..MaxTargets :
        op[p].pc = "done" /\ ~op[p].result.success =>
            op[p].result.rentRecovered = Zero

\* C37: a failed closure outcome has rentRecovered = 0, and the total
\* recovered changes only when a chunk is joined, by the sum of rentRecovered
\* over the successful outcomes of that chunk: a failed item adds nothing.
C37_TotalIsSumOverSuccesses ==
    /\ []C37_FailedOutcomesRecoverNothing
    /\ [][totalRentRecovered' =
             IF joined' = joined + 1
             THEN NumAdd(totalRentRecovered, RecoveredBy(SuccessesOf(batch)))
             ELSE totalRentRecovered]_vars

\* the script has joined a chunk of one success and one failure and counted
\* the deposit of the success
C37_Witness ==
    /\ variant = "script"
    /\ joined = 1
    /\ successCount = 1
    /\ failCount = 1
    /\ totalRentRecovered \in {DivLamportsPerSol(Num(AccountLamports(p), 0)) :
                                 p \in 1..2}

----------------------------------------------------------------------------
(* The two reads of the wallet balance *)

\* no closeAccount call has been made and no close transaction has landed
NothingStarted ==
    /\ \A p \in 1..MaxTargets : op[p].pc = "idle" /\ attempts[p] = 0
    /\ chunks = <<>>
    /\ ClosedPositions = {}

\* every chunk formed has been joined and no closeAccount call is in flight
EverythingJoined ==
    /\ joined = Len(chunks)
    /\ InFlight = {}
    /\ \A k \in 1..Len(chunks) : \A j \in 1..Len(chunks[k]) :
          op[chunks[k][j]].pc = "done"

\* the balance `before` is asked for, the balance `after` is asked for or
\* has been read
C38_ReadsAroundTheRun ==
    /\ pc \in {"start", "balanceBefore"} => NothingStarted
    /\ variant = "script" /\ pc = "balanceAfter" => EverythingJoined
    /\ report.kind = "script" => EverythingJoined

\* C38: the script asks for the wallet balance `before` when no closeAccount
\* call has been made, and for the balance `after` when every chunk has been
\* joined; a close transaction lands only in between, after the first read
\* was answered and before the second is asked for.
C38_ClosuresBetweenTheReads ==
    /\ []C38_ReadsAroundTheRun
    /\ [][closed' # closed =>
             pc \notin {"start", "balanceBefore", "balanceAfter", "done"}]_vars

\* the script has read the balance `after` of a run of two chunks in which
\* two close transactions landed
C38_Witness ==
    /\ report.kind = "script"
    /\ Len(chunks) = 2
    /\ Cardinality(ClosedPositions) = 2

----------------------------------------------------------------------------
(* The units of the gas figures *)

\* (balanceAfter - balanceBefore) minus the deposits counted as recovered,
\* all in lamports, from the figures of the report r
GasInLamports(r) ==
    Num(r.balanceAfterSOL.n - r.balanceBeforeSOL.n - r.totalRentRecovered.n, 0)

\* C39: the figure the script reports as lamports is the balance difference
\* in lamports minus the recovered deposits in lamports, and the figure it
\* reports as SOL is that number of lamports divided by LAMPORTS_PER_SOL.
C39_GasFiguresInTheirUnits ==
    report.kind = "script" =>
        /\ report.gasLamports = GasInLamports(report)
        /\ report.gasSol = DivLamportsPerSol(GasInLamports(report))

====
